---- MODULE Spec2Model ----
(***************************************************************************)
(* Model of the cyrano EFP codec: Message::try_from (decode), Message's    *)
(* Display impl (encode), Fencer::parse / Fencer::serialize, the field     *)
(* extraction helpers and the eight enumerations.                          *)
(*                                                                         *)
(* A Rust String / &str is a sequence of one-character strings.            *)
(* An Option<T> is a sequence of length at most one: None == <<>> and      *)
(* Some(v) == <<v>>.  A Result is a record with a boolean field ok.        *)
(***************************************************************************)
EXTENDS Integers, Sequences, FiniteSets, TLC

VARIABLES pc, input, raw, result, encoded, reparsed

vars == <<pc, input, raw, result, encoded, reparsed>>

(***************************************************************************)
(* Bounds of the explored input space.                                     *)
(***************************************************************************)
MaxFree == 5
MaxPlaced == 2
MaxFencerFields == 3

(***************************************************************************)
(* Option and Result.                                                      *)
(***************************************************************************)
None == <<>>

Some(v) == <<v>>

is_some(o) == o # <<>>

Ok(v) == [ok |-> TRUE, val |-> v]

Err(e) == [ok |-> FALSE, err |-> e]

EmptyMessage == [kind |-> "EmptyMessage"]

InvalidFormat == [kind |-> "InvalidFormat"]

MissingField(name) == [kind |-> "MissingField", name |-> name]

InvalidCommand(s) == [kind |-> "InvalidCommand", value |-> s]

InvalidProtocol(s) == [kind |-> "InvalidProtocol", value |-> s]

InvalidValue(f, s) == [kind |-> "InvalidValue", field |-> f, value |-> s]

(***************************************************************************)
(* Library string operations, as the standard library computes them.       *)
(***************************************************************************)
White == {" ", "\t"}

RECURSIVE trim_start(_)
trim_start(s) ==
  IF s # <<>> /\ Head(s) \in White THEN trim_start(Tail(s)) ELSE s

RECURSIVE trim_end(_)
trim_end(s) ==
  IF s # <<>> /\ s[Len(s)] \in White THEN trim_end(SubSeq(s, 1, Len(s) - 1)) ELSE s

RECURSIVE trim_pipes_too(_)
\* Strips whitespace and pipes in one pass.
trim_pipes_too(s) ==
  IF s # <<>> /\ Head(s) \in White \cup {"|"} THEN trim_pipes_too(Tail(s))
  ELSE IF s # <<>> /\ s[Len(s)] \in White \cup {"|"}
       THEN trim_pipes_too(SubSeq(s, 1, Len(s) - 1))
  ELSE s

trim(s) == trim_end(trim_start(s))

RECURSIVE trim_start_matches(_, _)
trim_start_matches(s, c) ==
  IF s # <<>> /\ Head(s) = c THEN trim_start_matches(Tail(s), c) ELSE s

RECURSIVE trim_end_matches(_, _)
trim_end_matches(s, c) ==
  IF s # <<>> /\ s[Len(s)] = c
  THEN trim_end_matches(SubSeq(s, 1, Len(s) - 1), c) ELSE s

trim_matches(s, c) == trim_end_matches(trim_start_matches(s, c), c)

RECURSIVE split_from(_, _, _, _, _)
split_from(s, c, i, cur, acc) ==
  IF i > Len(s) THEN Append(acc, cur)
  ELSE IF s[i] = c THEN split_from(s, c, i + 1, <<>>, Append(acc, cur))
  ELSE split_from(s, c, i + 1, Append(cur, s[i]), acc)

\* Keeps the non-empty segments only.
split_skip_empty(s, c) ==
  SelectSeq(split_from(s, c, 1, <<>>, <<>>), LAMBDA t : t # <<>>)

\* str::split: the segments between separators; never an empty list.
split(s, c) == split_from(s, c, 1, <<>>, <<>>)

RECURSIVE join(_, _)
join(parts, sep) ==
  IF parts = <<>> THEN <<>>
  ELSE IF Len(parts) = 1 THEN parts[1]
  ELSE parts[1] \o sep \o join(Tail(parts), sep)

LowerCase == <<"a","b","c","d","e","f","g","h","i","j","k","l","m",
               "n","o","p","q","r","s","t","u","v","w","x","y","z">>

UpperCase == <<"A","B","C","D","E","F","G","H","I","J","K","L","M",
               "N","O","P","Q","R","S","T","U","V","W","X","Y","Z">>

char_to_uppercase(c) ==
  IF \E i \in 1..Len(LowerCase) : LowerCase[i] = c
  THEN UpperCase[CHOOSE i \in 1..Len(LowerCase) : LowerCase[i] = c]
  ELSE c

to_uppercase(s) == [i \in 1..Len(s) |-> char_to_uppercase(s[i])]

Digits == <<"0","1","2","3","4","5","6","7","8","9">>

is_digit(c) == \E i \in 1..10 : Digits[i] = c

digit_value(c) == (CHOOSE i \in 1..10 : Digits[i] = c) - 1

U8Max == 255

RECURSIVE parse_digits(_, _)
\* Accumulates decimal digits with the checked arithmetic of u8::from_str:
\* a non-digit or a value above u8::MAX is an error (None).
parse_digits(s, acc) ==
  IF s = <<>> THEN Some(acc)
  ELSE IF ~is_digit(Head(s)) THEN None
  ELSE IF acc * 10 + digit_value(Head(s)) > U8Max THEN None
  ELSE parse_digits(Tail(s), acc * 10 + digit_value(Head(s)))

\* str::parse::<u8>().ok(): an optional leading '+', then at least one digit.
parse_u8(s) ==
  IF s = <<>> THEN None
  ELSE IF s = <<"+">> THEN None
  ELSE IF Head(s) = "+" THEN parse_digits(Tail(s), 0)
  ELSE parse_digits(s, 0)

RECURSIVE u8_to_string(_)
u8_to_string(n) ==
  IF n < 10 THEN <<Digits[n + 1]>>
  ELSE Append(u8_to_string(n \div 10), Digits[(n % 10) + 1])

\* bool::to_string: the words instead of the digits.
bool_to_string_word(b) ==
  IF b THEN <<"t","r","u","e">> ELSE <<"f","a","l","s","e">>

bool_to_string(b) == IF b THEN <<"1">> ELSE <<"0">>

\* Option<String>::unwrap_or_default and Option::map(render).unwrap_or_default
unwrap_or_default(o) == IF o = <<>> THEN <<>> ELSE o[1]

(***************************************************************************)
(* enums.rs: the eight enumerations, TryFrom<&str> and Display.            *)
(***************************************************************************)
CommandVariants == {"Hello", "Disp", "Ack", "Nak", "Info", "Next", "Prev"}

CompetitionTypeVariants == {"Individual", "Team"}

WeaponVariants == {"Foil", "Epee", "Sabre"}

PriorityVariants == {"None", "Right", "Left"}

ApparatusStateVariants == {"Fencing", "Halt", "Pause", "Waiting", "Ending"}

FencerStatusVariants == {"Undefined", "Victory", "Defeat", "Abandonment", "Exclusion"}

ReserveVariants == {"None", "Introduce"}

PCardVariants == {"None", "Yellow", "OneRed", "TwoRed", "OneBlack", "TwoBlack"}

\* The match of Command::try_from: u is the token compared, value the token
\* reported on failure.
Command_match(u, value) ==
  IF u = <<"H","E","L","L","O">> THEN Ok("Hello")
  ELSE IF u = <<"D","I","S","P">> THEN Ok("Disp")
  ELSE IF u = <<"A","C","K">> THEN Ok("Ack")
  ELSE IF u = <<"N","A","K">> THEN Ok("Nak")
  ELSE IF u = <<"I","N","F","O">> THEN Ok("Info")
  ELSE IF u = <<"N","E","X","T">> THEN Ok("Next")
  ELSE IF u = <<"P","R","E","V">> THEN Ok("Prev")
  ELSE Err(InvalidCommand(value))

\* Reports the upper-cased token instead of the raw one.
Command_try_from_upper_error(value) ==
  Command_match(to_uppercase(value), to_uppercase(value))

\* Compares the token as written, without upper-casing it.
Command_try_from_case_sensitive(value) == Command_match(value, value)

Command_try_from(value) == Command_match(to_uppercase(value), value)

Command_fmt(v) ==
  CASE v = "Hello" -> <<"H","E","L","L","O">>
    [] v = "Disp" -> <<"D","I","S","P">>
    [] v = "Ack" -> <<"A","C","K">>
    [] v = "Nak" -> <<"N","A","K">>
    [] v = "Info" -> <<"I","N","F","O">>
    [] v = "Next" -> <<"N","E","X","T">>
    [] v = "Prev" -> <<"P","R","E","V">>

CompetitionType_try_from(value) ==
  IF value = <<"I">> THEN Ok("Individual")
  ELSE IF value = <<"T">> THEN Ok("Team")
  ELSE Err(InvalidValue("competition_type", value))

CompetitionType_fmt(v) ==
  CASE v = "Individual" -> <<"I">>
    [] v = "Team" -> <<"T">>

\* Accepts the lower-case letters as well.
Weapon_try_from_ignore_case(value) ==
  IF to_uppercase(value) = <<"F">> THEN Ok("Foil")
  ELSE IF to_uppercase(value) = <<"E">> THEN Ok("Epee")
  ELSE IF to_uppercase(value) = <<"S">> THEN Ok("Sabre")
  ELSE Err(InvalidValue("weapon", value))

Weapon_try_from(value) ==
  IF value = <<"F">> THEN Ok("Foil")
  ELSE IF value = <<"E">> THEN Ok("Epee")
  ELSE IF value = <<"S">> THEN Ok("Sabre")
  ELSE Err(InvalidValue("weapon", value))

Weapon_fmt(v) ==
  CASE v = "Foil" -> <<"F">>
    [] v = "Epee" -> <<"E">>
    [] v = "Sabre" -> <<"S">>

Priority_try_from(value) ==
  IF value = <<"N">> THEN Ok("None")
  ELSE IF value = <<"R">> THEN Ok("Right")
  ELSE IF value = <<"L">> THEN Ok("Left")
  ELSE Err(InvalidValue("priority", value))

Priority_fmt(v) ==
  CASE v = "None" -> <<"N">>
    [] v = "Right" -> <<"R">>
    [] v = "Left" -> <<"L">>

ApparatusState_try_from(value) ==
  IF value = <<"F">> THEN Ok("Fencing")
  ELSE IF value = <<"H">> THEN Ok("Halt")
  ELSE IF value = <<"P">> THEN Ok("Pause")
  ELSE IF value = <<"W">> THEN Ok("Waiting")
  ELSE IF value = <<"E">> THEN Ok("Ending")
  ELSE Err(InvalidValue("state", value))

ApparatusState_fmt(v) ==
  CASE v = "Fencing" -> <<"F">>
    [] v = "Halt" -> <<"H">>
    [] v = "Pause" -> <<"P">>
    [] v = "Waiting" -> <<"W">>
    [] v = "Ending" -> <<"E">>

FencerStatus_try_from(value) ==
  IF value = <<"U">> THEN Ok("Undefined")
  ELSE IF value = <<"V">> THEN Ok("Victory")
  ELSE IF value = <<"D">> THEN Ok("Defeat")
  ELSE IF value = <<"A">> THEN Ok("Abandonment")
  ELSE IF value = <<"E">> THEN Ok("Exclusion")
  ELSE Err(InvalidValue("fencer_status", value))

FencerStatus_fmt(v) ==
  CASE v = "Undefined" -> <<"U">>
    [] v = "Victory" -> <<"V">>
    [] v = "Defeat" -> <<"D">>
    [] v = "Abandonment" -> <<"A">>
    [] v = "Exclusion" -> <<"E">>

Reserve_try_from(value) ==
  IF value = <<"N">> THEN Ok("None")
  ELSE IF value = <<"R">> THEN Ok("Introduce")
  ELSE Err(InvalidValue("reserve", value))

\* Renders Introduce by the first letter of the variant's name.
Reserve_fmt_initial(v) ==
  CASE v = "None" -> <<"N">>
    [] v = "Introduce" -> <<"I">>

Reserve_fmt(v) ==
  CASE v = "None" -> <<"N">>
    [] v = "Introduce" -> <<"R">>

PCard_try_from(value) ==
  IF value = <<"0">> THEN Ok("None")
  ELSE IF value = <<"1">> THEN Ok("Yellow")
  ELSE IF value = <<"2">> THEN Ok("OneRed")
  ELSE IF value = <<"3">> THEN Ok("TwoRed")
  ELSE IF value = <<"4">> THEN Ok("OneBlack")
  ELSE IF value = <<"5">> THEN Ok("TwoBlack")
  ELSE Err(InvalidValue("p_card", value))

PCard_fmt(v) ==
  CASE v = "None" -> <<"0">>
    [] v = "Yellow" -> <<"1">>
    [] v = "OneRed" -> <<"2">>
    [] v = "TwoRed" -> <<"3">>
    [] v = "OneBlack" -> <<"4">>
    [] v = "TwoBlack" -> <<"5">>

EnumNames ==
  {"Command", "CompetitionType", "Weapon", "Priority", "ApparatusState",
   "FencerStatus", "Reserve", "PCard"}

Variants(k) ==
  CASE k = "Command" -> CommandVariants
    [] k = "CompetitionType" -> CompetitionTypeVariants
    [] k = "Weapon" -> WeaponVariants
    [] k = "Priority" -> PriorityVariants
    [] k = "ApparatusState" -> ApparatusStateVariants
    [] k = "FencerStatus" -> FencerStatusVariants
    [] k = "Reserve" -> ReserveVariants
    [] k = "PCard" -> PCardVariants

\* <k as TryFrom<&str>>::try_from(value)
Enum_try_from(k, value) ==
  CASE k = "Command" -> Command_try_from(value)
    [] k = "CompetitionType" -> CompetitionType_try_from(value)
    [] k = "Weapon" -> Weapon_try_from(value)
    [] k = "Priority" -> Priority_try_from(value)
    [] k = "ApparatusState" -> ApparatusState_try_from(value)
    [] k = "FencerStatus" -> FencerStatus_try_from(value)
    [] k = "Reserve" -> Reserve_try_from(value)
    [] k = "PCard" -> PCard_try_from(value)

\* <k as Display>::fmt(v)
Enum_fmt(k, v) ==
  CASE k = "Command" -> Command_fmt(v)
    [] k = "CompetitionType" -> CompetitionType_fmt(v)
    [] k = "Weapon" -> Weapon_fmt(v)
    [] k = "Priority" -> Priority_fmt(v)
    [] k = "ApparatusState" -> ApparatusState_fmt(v)
    [] k = "FencerStatus" -> FencerStatus_fmt(v)
    [] k = "Reserve" -> Reserve_fmt(v)
    [] k = "PCard" -> PCard_fmt(v)

\* Result::ok(): a failed conversion becomes None.
ok(r) == IF r.ok THEN Some(r.val) ELSE None

(***************************************************************************)
(* utils.rs: positional field extraction.                                  *)
(***************************************************************************)
\* Returns an empty token as present.
get_field_keep_empty(fields, index) ==
  IF index + 1 > Len(fields) THEN None ELSE Some(fields[index + 1])

\* index is zero-based, as in the source.
get_field(fields, index) ==
  IF index + 1 > Len(fields) THEN None
  ELSE IF fields[index + 1] = <<>> THEN None
  ELSE Some(fields[index + 1])

get_required_field(fields, index, name) ==
  LET f == get_field(fields, index) IN
  IF f = None THEN Err(MissingField(name)) ELSE Ok(f[1])

parse_optional_u8(fields, index) ==
  LET f == get_field(fields, index) IN
  IF f = None THEN None ELSE parse_u8(f[1])

parse_optional_bool(fields, index) ==
  LET f == get_field(fields, index) IN
  IF f = None THEN None ELSE Some(f[1] = <<"1">>)

(***************************************************************************)
(* fencer.rs                                                               *)
(***************************************************************************)
Fencer_default ==
  [id |-> None, name |-> None, nation |-> None, score |-> None,
   status |-> None, yellow_card |-> None, red_card |-> None,
   light |-> None, white_light |-> None, medical |-> None,
   reserve |-> None, p_card |-> None]

\* The record built by Fencer::parse.
Fencer_from_fields(fields) ==
  [id |-> get_field(fields, 0),
   name |-> get_field(fields, 1),
   nation |-> get_field(fields, 2),
   score |-> parse_optional_u8(fields, 3),
   status |-> LET f == get_field(fields, 4) IN
           IF f = None THEN None ELSE ok(FencerStatus_try_from(f[1])),
   yellow_card |-> parse_optional_u8(fields, 5),
   red_card |-> parse_optional_u8(fields, 6),
   light |-> parse_optional_bool(fields, 7),
   white_light |-> parse_optional_bool(fields, 8),
   medical |-> parse_optional_u8(fields, 9),
   reserve |-> LET f == get_field(fields, 10) IN
         IF f = None THEN None ELSE ok(Reserve_try_from(f[1])),
   p_card |-> LET f == get_field(fields, 11) IN
           IF f = None THEN None ELSE ok(PCard_try_from(f[1]))]

\* Fails on a status token that is not a listed literal instead of
\* dropping it.
\* Fencer::parse with the status token propagated as an error.
Fencer_parse_strict(fields) ==
  LET s == get_field(fields, 4) IN
  IF s # None /\ ~FencerStatus_try_from(s[1]).ok
  THEN FencerStatus_try_from(s[1])
  ELSE Ok(Fencer_from_fields(fields))

Fencer_parse(fields) == Ok(Fencer_from_fields(fields))

Fencer_fields(f) ==
  << unwrap_or_default(f.id),
     unwrap_or_default(f.name),
     unwrap_or_default(f.nation),
     IF f.score = None THEN <<>> ELSE u8_to_string(f.score[1]),
     IF f.status = None THEN <<>> ELSE FencerStatus_fmt(f.status[1]),
     IF f.yellow_card = None THEN <<>> ELSE u8_to_string(f.yellow_card[1]),
     IF f.red_card = None THEN <<>> ELSE u8_to_string(f.red_card[1]),
     IF f.light = None THEN <<>> ELSE bool_to_string(f.light[1]),
     IF f.white_light = None THEN <<>> ELSE bool_to_string(f.white_light[1]),
     IF f.medical = None THEN <<>> ELSE u8_to_string(f.medical[1]),
     IF f.reserve = None THEN <<>> ELSE Reserve_fmt(f.reserve[1]),
     IF f.p_card = None THEN <<>> ELSE PCard_fmt(f.p_card[1]) >>

RECURSIVE skip_leading_and_trailing_empty(_)
\* Drops the empty tokens at both ends.
skip_leading_and_trailing_empty(fields) ==
  IF fields # <<>> /\ fields[Len(fields)] = <<>>
  THEN skip_leading_and_trailing_empty(SubSeq(fields, 1, Len(fields) - 1))
  ELSE IF fields # <<>> /\ Head(fields) = <<>>
  THEN skip_leading_and_trailing_empty(Tail(fields))
  ELSE fields

RECURSIVE skip_trailing_empty(_)
\* .rev().skip_while(|s| s.is_empty()).rev(): drops the trailing run of
\* empty tokens only.
skip_trailing_empty(fields) ==
  IF fields # <<>> /\ fields[Len(fields)] = <<>>
  THEN skip_trailing_empty(SubSeq(fields, 1, Len(fields) - 1))
  ELSE fields

\* Drops every empty token instead of the trailing run only.
Fencer_serialize_drop_empty(f) ==
  join(SelectSeq(Fencer_fields(f), LAMBDA t : t # <<>>), <<"|">>)

Fencer_serialize(f) == join(skip_trailing_empty(Fencer_fields(f)), <<"|">>)

(***************************************************************************)
(* message.rs                                                              *)
(***************************************************************************)
EFP1 == <<"E","F","P","1">>

EFP1_1 == <<"E","F","P","1",".","1">>

\* Removes one pipe at most from each end of the zone before splitting.
\* Strips one frame pipe at each end of the zone, then splits.
zone_fields_strip_one(zone) ==
  LET a == IF zone # <<>> /\ Head(zone) = "|" THEN Tail(zone) ELSE zone
      b == IF a # <<>> /\ a[Len(a)] = "|" THEN SubSeq(a, 1, Len(a) - 1) ELSE a
  IN split(b, "|")

\* zone.trim_matches('|').split('|').collect()
zone_fields(zone) == split(trim_matches(zone, "|"), "|")

\* The rest of try_from, once protocol and command have been accepted.
Message_build(protocol, command, general_fields, zones) ==
  LET ct == get_field(general_fields, 10)
      we == get_field(general_fields, 11)
      pr == get_field(general_fields, 12)
      st == get_field(general_fields, 13)
      right == IF Len(zones) > 1
               THEN Fencer_parse(zone_fields(zones[2]))
               ELSE Ok(Fencer_default)
      left == IF Len(zones) > 2
              THEN Fencer_parse(zone_fields(zones[3]))
              ELSE Ok(Fencer_default)
  IN
  IF ~right.ok THEN right
  ELSE IF ~left.ok THEN left
  ELSE Ok([protocol |-> protocol,
           command |-> command,
           piste |-> unwrap_or_default(get_field(general_fields, 2)),
           competition_id |-> unwrap_or_default(get_field(general_fields, 3)),
           phase |-> parse_optional_u8(general_fields, 4),
           pool_tableau |-> get_field(general_fields, 5),
           match_number |-> parse_optional_u8(general_fields, 6),
           round |-> parse_optional_u8(general_fields, 7),
           time |-> get_field(general_fields, 8),
           stopwatch |-> get_field(general_fields, 9),
           competition_type |->
             IF ct = None THEN None ELSE ok(CompetitionType_try_from(ct[1])),
           weapon |-> IF we = None THEN None ELSE ok(Weapon_try_from(we[1])),
           priority |-> IF pr = None THEN None ELSE ok(Priority_try_from(pr[1])),
           state |-> IF st = None THEN None ELSE ok(ApparatusState_try_from(st[1])),
           referee |-> [id |-> get_field(general_fields, 14),
                        name |-> get_field(general_fields, 15),
                        nation |-> get_field(general_fields, 16)],
           right_fencer |-> right.val,
           left_fencer |-> left.val])

\* Accepts a protocol tag by the comparison of the source, but ignoring case.
protocol_supported_ignore_case(protocol) ==
  to_uppercase(protocol) = EFP1_1 \/ to_uppercase(protocol) = EFP1

\* !(protocol != "EFP1.1" && protocol != "EFP1")
protocol_supported(protocol) == protocol = EFP1_1 \/ protocol = EFP1

\* impl TryFrom<&str> for Message
Message_try_from(line) ==
  LET trimmed == trim(line)
      stripped == trim_matches(trimmed, "|")
      zones == split(stripped, "%")
      general_fields == zone_fields(zones[1])
      protocol == get_required_field(general_fields, 0, "protocol")
      cmdfield == get_required_field(general_fields, 1, "command")
      command == Command_try_from(cmdfield.val)
  IN
  IF trimmed = <<>> THEN Err(EmptyMessage)
  ELSE IF zones = <<>> THEN Err(InvalidFormat)
  ELSE IF ~protocol.ok THEN protocol
  ELSE IF ~protocol_supported(protocol.val)
       THEN Err(InvalidProtocol(protocol.val))
  ELSE IF ~cmdfield.ok THEN cmdfield
  ELSE IF ~command.ok THEN command
  ELSE Message_build(protocol.val, command.val, general_fields, zones)

\* The 17 general tokens of impl Display for Message.
Message_general_fields(m) ==
  << m.protocol,
     Command_fmt(m.command),
     m.piste,
     m.competition_id,
     IF m.phase = None THEN <<>> ELSE u8_to_string(m.phase[1]),
     unwrap_or_default(m.pool_tableau),
     IF m.match_number = None THEN <<>> ELSE u8_to_string(m.match_number[1]),
     IF m.round = None THEN <<>> ELSE u8_to_string(m.round[1]),
     unwrap_or_default(m.time),
     unwrap_or_default(m.stopwatch),
     IF m.competition_type = None THEN <<>>
       ELSE CompetitionType_fmt(m.competition_type[1]),
     IF m.weapon = None THEN <<>> ELSE Weapon_fmt(m.weapon[1]),
     IF m.priority = None THEN <<>> ELSE Priority_fmt(m.priority[1]),
     IF m.state = None THEN <<>> ELSE ApparatusState_fmt(m.state[1]),
     unwrap_or_default(m.referee.id),
     unwrap_or_default(m.referee.name),
     unwrap_or_default(m.referee.nation) >>

\* The Display of the source with the trailing empty tokens of the general
\* zone dropped as they are in a fencer zone.
Message_fmt_trimmed_general(m) ==
  <<"|">> \o join(skip_trailing_empty(Message_general_fields(m)), <<"|">>)
    \o <<"|","%","|">>
    \o Fencer_serialize(m.right_fencer) \o <<"|","%","|">>
    \o Fencer_serialize(m.left_fencer) \o <<"|","%","|">>

\* impl Display for Message: "|{}|%|{}|%|{}|%|"
Message_fmt(m) ==
  <<"|">> \o join(Message_general_fields(m), <<"|">>) \o <<"|","%","|">>
    \o Fencer_serialize(m.right_fencer) \o <<"|","%","|">>
    \o Fencer_serialize(m.left_fencer) \o <<"|","%","|">>

(***************************************************************************)
(* Input lines.  Three bounded families are explored:                      *)
(*   free   - every concatenation of at most MaxFree pieces;               *)
(*   header - a lead, a protocol token, a command token and a tail;        *)
(*   placed - a well-formed line with at most MaxPlaced populated          *)
(*            optional positions, each holding a valid or invalid token.   *)
(***************************************************************************)
HELLO == <<"H","E","L","L","O">>

INFO == <<"I","N","F","O">>

Pieces == { <<" ">>, <<"|">>, <<"%">>, EFP1, HELLO, <<"X">> }

RECURSIVE concat(_)
concat(parts) == IF parts = <<>> THEN <<>> ELSE Head(parts) \o concat(Tail(parts))

FreeLines == { concat(ps) : ps \in UNION { [1..n -> Pieces] : n \in 0..MaxFree } }

CommandLiterals ==
  { HELLO, <<"D","I","S","P">>, <<"A","C","K">>, <<"N","A","K">>, INFO,
    <<"N","E","X","T">>, <<"P","R","E","V">> }

to_lowercase_char(c) ==
  IF \E i \in 1..Len(UpperCase) : UpperCase[i] = c
  THEN LowerCase[CHOOSE i \in 1..Len(UpperCase) : UpperCase[i] = c]
  ELSE c

\* Every upper/lower-case mixture of the word w.
CaseMixtures(w) ==
  { [i \in 1..Len(w) |-> IF i \in low THEN to_lowercase_char(w[i]) ELSE w[i]] :
      low \in SUBSET (1..Len(w)) }

\* The spellings of each command literal, in any letter case.
Spellings == [w \in CommandLiterals |-> CaseMixtures(w)]

Leads == { <<>>, <<"|">>, <<"|","|">>, <<" ","|">>, <<"\t">> }

ProtoTokens ==
  { <<>>, EFP1, EFP1_1, <<"E","F","P","2",".","0">>, <<"e","f","p","1">>,
    <<"E","F","P","1"," ">>, <<"E","F","P","1",".">> }

CmdTokens ==
  (UNION { Spellings[w] : w \in CommandLiterals })
    \cup { <<>>, <<"I","N","V","A","L","I","D">>, <<"H","E","L","L">>,
           <<"h","e","l","o">>, <<"W">>, <<" ","A","C","K">>, <<"1">> }

Tails ==
  { <<>>,
    <<"|","1","7","|","f","m","-","e","q","|","%","|">>,
    <<"|","|","|","x","|","%","|","|","%","|","L","|","%","|">>,
    <<"%","R","|","n","|","|","2","5","6","|","e","%"," ">>,
    <<"|","|","|","|","|","|","|","|","|","|","|","|","W","|","|","%","|">> }

HeaderInputs ==
  [family : {"header"}, lead : Leads, proto : ProtoTokens, cmd : CmdTokens,
   tail : Tails]

HeaderLine(i) == i.lead \o i.proto \o <<"|">> \o i.cmd \o i.tail

\* Positions <<zone, index>>: zone 0 is the general zone (indices 2..16),
\* zone 1 the right fencer, zone 2 the left fencer (indices 0..11).
Positions ==
  ({0} \X (2..16)) \cup ({1, 2} \X (0..11))

NumericPositions == ({0} \X {4, 6, 7}) \cup ({1, 2} \X {3, 5, 6, 9})

EnumPositions == ({0} \X {10, 11, 12, 13}) \cup ({1, 2} \X {4, 10, 11})

BoolPositions == {1, 2} \X {7, 8}

\* The listed literals of the enumeration read at an enumeration position.
LiteralsAt(p) ==
  CASE p = <<0, 10>> -> { <<"I">>, <<"T">> }
    [] p = <<0, 11>> -> { <<"F">>, <<"E">>, <<"S">> }
    [] p = <<0, 12>> -> { <<"N">>, <<"R">>, <<"L">> }
    [] p = <<0, 13>> -> { <<"F">>, <<"H">>, <<"P">>, <<"W">>, <<"E">> }
    [] p[1] # 0 /\ p[2] = 4 -> { <<"U">>, <<"V">>, <<"D">>, <<"A">>, <<"E">> }
    [] p[1] # 0 /\ p[2] = 10 -> { <<"N">>, <<"R">> }
    [] p[1] # 0 /\ p[2] = 11 ->
         { <<"0">>, <<"1">>, <<"2">>, <<"3">>, <<"4">>, <<"5">> }

\* A valid token for position p, different at neighbouring positions.
GoodToken(p) ==
  IF p \in NumericPositions THEN u8_to_string(p[2] * 21 + p[1])
  ELSE IF p \in EnumPositions
       THEN CASE p = <<0, 10>> -> <<"T">>
              [] p = <<0, 11>> -> <<"S">>
              [] p = <<0, 12>> -> <<"L">>
              [] p = <<0, 13>> -> <<"W">>
              [] p[1] # 0 /\ p[2] = 4 -> <<"V">>
              [] p[1] # 0 /\ p[2] = 10 -> <<"R">>
              [] p[1] # 0 /\ p[2] = 11 -> <<"5">>
  ELSE IF p \in BoolPositions THEN <<"1">>
  ELSE <<LowerCase[p[1] * 3 + 1], LowerCase[p[2] + 1]>>

\* A token the field at p cannot be decoded from (or decodes to false from).
BadToken(p) ==
  IF p \in NumericPositions
  THEN CASE p[2] = 3 -> <<"2","5","6">>
         [] p[2] = 4 -> <<"-","1">>
         [] p[2] = 5 -> <<"x">>
         [] p[2] = 6 -> <<"1"," ">>
         [] p[2] = 7 -> <<"+">>
         [] p[2] = 9 -> <<"9","9","9">>
  ELSE IF p \in EnumPositions
       THEN IF p[2] = 11 /\ p[1] # 0 THEN <<"6">>
            ELSE <<to_lowercase_char(GoodToken(p)[1])>>
  ELSE IF p \in BoolPositions THEN <<"0">>
  ELSE <<" ">>

RECURSIVE SubsetsUpTo(_, _)
\* The subsets of S with at most k elements.
SubsetsUpTo(S, k) ==
  IF k = 0 THEN {{}}
  ELSE LET smaller == SubsetsUpTo(S, k - 1)
       IN smaller \cup { D \cup {x} : D \in smaller, x \in S }

PlacedInputs ==
  { [family |-> "placed", placed |-> f] :
      f \in UNION { [D -> {"good", "bad"}] : D \in SubsetsUpTo(Positions, MaxPlaced) } }

TokenOf(i, p) ==
  IF p \notin DOMAIN i.placed THEN <<>>
  ELSE IF i.placed[p] = "good" THEN GoodToken(p) ELSE BadToken(p)

LastIndex(i, z) ==
  IF \E p \in DOMAIN i.placed : p[1] = z
  THEN CHOOSE k \in 0..16 :
         /\ <<z, k>> \in DOMAIN i.placed
         /\ \A p \in DOMAIN i.placed : p[1] = z => p[2] <= k
  ELSE -1

\* The tokens of zone z from index first up to the last populated index.
ZoneText(i, z, first) ==
  join([k \in 1..(LastIndex(i, z) + 1 - first) |-> TokenOf(i, <<z, k - 1 + first>>)],
       <<"|">>)

\* |<general>|%|<right>|%|<left>|%| with the zones after the last populated
\* one left off the wire.
PlacedLine(i) ==
  LET sep == <<"|", "%", "|">>
      general == IF LastIndex(i, 0) < 0 THEN <<>> ELSE <<"|">> \o ZoneText(i, 0, 2)
      nz == IF LastIndex(i, 2) >= 0 THEN 2 ELSE IF LastIndex(i, 1) >= 0 THEN 1 ELSE 0
  IN <<"|">> \o EFP1_1 \o <<"|">> \o INFO \o general \o sep
       \o (IF nz >= 1 THEN ZoneText(i, 1, 0) \o sep ELSE <<>>)
       \o (IF nz >= 2 THEN ZoneText(i, 2, 0) \o sep ELSE <<>>)

NoResult == [ok |-> FALSE, err |-> [kind |-> "NotRun"]]

(***************************************************************************)
(* The codec as a state machine: a line is decoded, the message is         *)
(* encoded, and the encoded line is decoded again.                         *)
(***************************************************************************)
InitFree ==
  /\ input = [family |-> "free"]
  /\ raw \in FreeLines

InitHeader ==
  /\ input \in HeaderInputs
  /\ raw = HeaderLine(input)

InitPlaced ==
  /\ input \in PlacedInputs
  /\ raw = PlacedLine(input)

Init ==
  /\ pc = "start"
  /\ result = NoResult
  /\ encoded = <<>>
  /\ reparsed = NoResult
  /\ (InitFree \/ InitHeader \/ InitPlaced)

\* Message::try_from(raw)
Decode ==
  /\ pc = "start"
  /\ result' = Message_try_from(raw)
  /\ pc' = "decoded"
  /\ UNCHANGED <<input, raw, encoded, reparsed>>

\* msg.to_string()
Encode ==
  /\ pc = "decoded"
  /\ result.ok
  /\ encoded' = Message_fmt(result.val)
  /\ pc' = "encoded"
  /\ UNCHANGED <<input, raw, result, reparsed>>

\* Message::try_from(serialized.as_str())
Reparse ==
  /\ pc = "encoded"
  /\ reparsed' = Message_try_from(encoded)
  /\ pc' = "reparsed"
  /\ UNCHANGED <<input, raw, result, encoded>>

Next == Decode \/ Encode \/ Reparse

Spec == Init /\ [][Next]_vars

(***************************************************************************)
(* The enumerations on their own: a token is decoded, or a variant is      *)
(* taken; the variant is encoded and the token decoded again.              *)
(***************************************************************************)
TokenChars ==
  { UpperCase[i] : i \in 1..26 } \cup { LowerCase[i] : i \in 1..26 }
    \cup { Digits[i] : i \in 1..10 } \cup { " ", "+" }

EnumTokens ==
  { <<>> } \cup { <<c>> : c \in TokenChars }
    \cup { <<"F","F">>, <<"1","0">>, <<"I"," ">>, <<" ","N">>, <<"0","5">> }
    \cup CmdTokens

EnumInitToken ==
  /\ pc = "start"
  /\ input \in [family : {"enum"}, enum : EnumNames, from : {"token"}]
  /\ raw \in EnumTokens
  /\ result = NoResult

EnumInitVariant ==
  /\ pc = "variant"
  /\ input \in [family : {"enum"}, enum : EnumNames, from : {"variant"}]
  /\ raw = <<>>
  /\ \E v \in Variants(input.enum) : result = Ok(v)

EnumInit ==
  /\ encoded = <<>>
  /\ reparsed = NoResult
  /\ (EnumInitToken \/ EnumInitVariant)

\* T::try_from(token)
EnumDecode ==
  /\ pc = "start"
  /\ result' = Enum_try_from(input.enum, raw)
  /\ pc' = "decoded"
  /\ UNCHANGED <<input, raw, encoded, reparsed>>

\* v.to_string()
EnumEncode ==
  /\ pc \in {"decoded", "variant"}
  /\ result.ok
  /\ encoded' = Enum_fmt(input.enum, result.val)
  /\ pc' = "encoded"
  /\ UNCHANGED <<input, raw, result, reparsed>>

\* T::try_from(v.to_string().as_str())
EnumReparse ==
  /\ pc = "encoded"
  /\ reparsed' = Enum_try_from(input.enum, encoded)
  /\ pc' = "reparsed"
  /\ UNCHANGED <<input, raw, result, encoded>>

EnumNext == EnumDecode \/ EnumEncode \/ EnumReparse

EnumSpec == EnumInit /\ [][EnumNext]_vars

(***************************************************************************)
(* Fencer values on their own: a Fencer is built field by field (its       *)
(* fields are public), serialized, and the tokens of the serialization     *)
(* are parsed again.                                                       *)
(***************************************************************************)
\* The value of the good token at p, or another value of the field's type:
\* for strings the empty string (even indices) or a string with a pipe.
ValueOf(p, kind) ==
  IF p \in NumericPositions
  THEN IF kind = "good" THEN Some(p[2] * 21 + p[1]) ELSE Some(U8Max)
  ELSE IF p \in EnumPositions
  THEN CASE p = <<0, 10>> -> IF kind = "good" THEN Some("Team") ELSE Some("Individual")
         [] p = <<0, 11>> -> IF kind = "good" THEN Some("Sabre") ELSE Some("Epee")
         [] p = <<0, 12>> -> IF kind = "good" THEN Some("Left") ELSE Some("None")
         [] p = <<0, 13>> -> IF kind = "good" THEN Some("Waiting") ELSE Some("Halt")
         [] p[1] # 0 /\ p[2] = 4 ->
              IF kind = "good" THEN Some("Victory") ELSE Some("Exclusion")
         [] p[1] # 0 /\ p[2] = 10 ->
              IF kind = "good" THEN Some("Introduce") ELSE Some("None")
         [] p[1] # 0 /\ p[2] = 11 ->
              IF kind = "good" THEN Some("TwoBlack") ELSE Some("None")
  ELSE IF p \in BoolPositions THEN Some(kind = "good")
  ELSE IF kind = "good" THEN Some(GoodToken(p))
  ELSE IF p[2] % 2 = 0 THEN Some(<<>>)
  ELSE Some(<<"x", "|", "y">>)

ValueAt(i, p) ==
  IF p \in DOMAIN i.placed THEN ValueOf(p, i.placed[p]) ELSE None

\* The Fencer (zone z of the description i) with the described fields set.
FencerOf(i, z) ==
  [id |-> ValueAt(i, <<z, 0>>),
   name |-> ValueAt(i, <<z, 1>>),
   nation |-> ValueAt(i, <<z, 2>>),
   score |-> ValueAt(i, <<z, 3>>),
   status |-> ValueAt(i, <<z, 4>>),
   yellow_card |-> ValueAt(i, <<z, 5>>),
   red_card |-> ValueAt(i, <<z, 6>>),
   light |-> ValueAt(i, <<z, 7>>),
   white_light |-> ValueAt(i, <<z, 8>>),
   medical |-> ValueAt(i, <<z, 9>>),
   reserve |-> ValueAt(i, <<z, 10>>),
   p_card |-> ValueAt(i, <<z, 11>>)]

FencerInputs ==
  { [family |-> "fencer", placed |-> f] :
      f \in UNION { [D -> {"good", "bad"}] :
                      D \in SubsetsUpTo({1} \X (0..11), MaxFencerFields) } }

FencerInit ==
  /\ pc = "fencer"
  /\ input \in FencerInputs
  /\ raw = <<>>
  /\ result = Ok(FencerOf(input, 1))
  /\ encoded = <<>>
  /\ reparsed = NoResult

\* fencer.serialize()
FencerSerialize ==
  /\ pc = "fencer"
  /\ encoded' = Fencer_serialize(result.val)
  /\ pc' = "serialized"
  /\ UNCHANGED <<input, raw, result, reparsed>>

\* Fencer::parse(&serialized.split('|').collect::<Vec<_>>())
FencerParse ==
  /\ pc = "serialized"
  /\ reparsed' = Fencer_parse(split(encoded, "|"))
  /\ pc' = "parsed"
  /\ UNCHANGED <<input, raw, result, encoded>>

FencerNext == FencerSerialize \/ FencerParse

FencerSpec == FencerInit /\ [][FencerNext]_vars

(***************************************************************************)
(* Messages on their own: a Message is built field by field (its fields    *)
(* are public), converted to its line, and the line is decoded.            *)
(***************************************************************************)
\* The wire text of ValueOf(p, kind).
ValueToken(p, kind) ==
  IF kind = "good" THEN GoodToken(p)
  ELSE IF p \in NumericPositions THEN u8_to_string(U8Max)
  ELSE IF p \in EnumPositions
  THEN CASE p = <<0, 10>> -> <<"I">>
         [] p = <<0, 11>> -> <<"E">>
         [] p = <<0, 12>> -> <<"N">>
         [] p = <<0, 13>> -> <<"H">>
         [] p[1] # 0 /\ p[2] = 4 -> <<"E">>
         [] p[1] # 0 /\ p[2] = 10 -> <<"N">>
         [] p[1] # 0 /\ p[2] = 11 -> <<"0">>
  ELSE IF p \in BoolPositions THEN <<"0">>
  ELSE ValueOf(p, kind)[1]

ValueTokenAt(i, p) ==
  IF p \in DOMAIN i.placed THEN ValueToken(p, i.placed[p]) ELSE <<>>

\* The Message with the described protocol, command and fields.
MessageOf(i) ==
  [protocol |-> i.proto,
   command |-> i.cmd,
   piste |-> unwrap_or_default(ValueAt(i, <<0, 2>>)),
   competition_id |-> unwrap_or_default(ValueAt(i, <<0, 3>>)),
   phase |-> ValueAt(i, <<0, 4>>),
   pool_tableau |-> ValueAt(i, <<0, 5>>),
   match_number |-> ValueAt(i, <<0, 6>>),
   round |-> ValueAt(i, <<0, 7>>),
   time |-> ValueAt(i, <<0, 8>>),
   stopwatch |-> ValueAt(i, <<0, 9>>),
   competition_type |-> ValueAt(i, <<0, 10>>),
   weapon |-> ValueAt(i, <<0, 11>>),
   priority |-> ValueAt(i, <<0, 12>>),
   state |-> ValueAt(i, <<0, 13>>),
   referee |-> [id |-> ValueAt(i, <<0, 14>>),
                name |-> ValueAt(i, <<0, 15>>),
                nation |-> ValueAt(i, <<0, 16>>)],
   right_fencer |-> FencerOf(i, 1),
   left_fencer |-> FencerOf(i, 2)]

\* Every protocol and command with no optional field, and INFO messages
\* with at most MaxPlaced optional fields set.
MessageInputs ==
  { [family |-> "message", proto |-> p, cmd |-> c, placed |-> <<>>] :
      p \in {<<>>, EFP1, EFP1_1}, c \in CommandVariants }
  \cup { [family |-> "message", proto |-> EFP1_1, cmd |-> "Info",
          placed |-> i.placed] : i \in PlacedInputs }

MessageInit ==
  /\ pc = "message"
  /\ input \in MessageInputs
  /\ raw = <<>>
  /\ result = Ok(MessageOf(input))
  /\ encoded = <<>>
  /\ reparsed = NoResult

\* String::from(msg), which is msg.to_string()
MessageToString ==
  /\ pc = "message"
  /\ encoded' = Message_fmt(result.val)
  /\ pc' = "encoded"
  /\ UNCHANGED <<input, raw, result, reparsed>>

MessageNext == MessageToString \/ Reparse

MessageSpec == MessageInit /\ [][MessageNext]_vars

(***************************************************************************)
(* Properties.                                                             *)
(***************************************************************************)
Blank(line) == \A i \in 1..Len(line) : line[i] \in White

RECURSIVE take_field(_)
\* The characters of s up to the first field or zone separator.
take_field(s) ==
  IF s = <<>> \/ Head(s) \in {"|", "%"} THEN <<>>
  ELSE <<Head(s)>> \o take_field(Tail(s))

\* The first field decode reads: the leading pipes of the line are taken as
\* frame delimiters.
ProtocolField(line) == take_field(trim_start_matches(trim(line), "|"))

\* The field that follows the protocol field and one field separator.
CommandField(line) ==
  LET t == trim_start_matches(trim(line), "|")
      rest == SubSeq(t, Len(ProtocolField(line)) + 1, Len(t))
  IN IF rest # <<>> /\ Head(rest) = "|" THEN take_field(Tail(rest)) ELSE <<>>

IsCommandLiteral(c) == \E w \in CommandLiterals : c \in Spellings[w]

ErrIs(r, e) == ~r.ok /\ r.err = e

\* C1: for every line whose decode succeeds with m, decoding the encoded
\* form of m succeeds and yields a message equal to m in every field
\* (present fields keep their value, absent fields stay absent).
C1_RoundTrip ==
  pc = "reparsed" => (reparsed.ok /\ reparsed.val = result.val)

\* C1 witness: a round trip of a message whose right fencer has an id, no
\* name and a later present field.
C1_Witness ==
  /\ pc = "reparsed"
  /\ reparsed.ok
  /\ is_some(result.val.right_fencer.id)
  /\ result.val.right_fencer.name = None
  /\ is_some(result.val.right_fencer.score)

\* C2: decode fails with EmptyMessage exactly for the lines that are empty
\* or whitespace only.
C2_EmptyMessage ==
  pc # "start" => (ErrIs(result, EmptyMessage) <=> Blank(raw))

\* C2 witness: a non-empty whitespace-only line was rejected as empty.
C2_Witness ==
  /\ pc = "decoded"
  /\ Len(raw) >= 2
  /\ Blank(raw)
  /\ ErrIs(result, EmptyMessage)

WireGeneralFields(line) ==
  LET t == trim(line)
      u == IF t # <<>> /\ Head(t) = "|" THEN Tail(t) ELSE t
  IN split(split(u, "%")[1], "|")

\* C4: when the protocol field (general index 0) is absent or empty on the
\* wire, decode fails with MissingField("protocol"), whatever follows it.
C4_MissingProtocol ==
  pc # "start" =>
    ((~Blank(raw) /\ WireGeneralFields(raw)[1] = <<>>)
       => ErrIs(result, MissingField("protocol")))

\* C5: with a recognized protocol tag, a present command field that is not
\* a command literal in any letter case fails with InvalidCommand carrying
\* the raw token.
C5_InvalidCommand ==
  pc # "start" =>
    LET c == CommandField(raw) IN
    (ProtocolField(raw) \in {EFP1, EFP1_1} /\ c # <<>> /\ ~IsCommandLiteral(c))
      => ErrIs(result, InvalidCommand(c))

\* C5 witness: a lower-case unknown command was rejected with its raw token.
C5_Witness ==
  /\ pc = "decoded"
  /\ ErrIs(result, InvalidCommand(<<"h","e","l","o">>))

\* C6: for each enumeration and every variant v, decoding the token
\* encode(v) succeeds and gives v, and no other variant has that token.
C6_EnumRoundTrip ==
  /\ pc = "reparsed" => (reparsed.ok /\ reparsed.val = result.val)
  /\ pc = "encoded" =>
       \A w \in Variants(input.enum) \ {result.val} :
         Enum_fmt(input.enum, w) # encoded

\* C6 witness: a variant taken directly (not obtained by decoding) made the
\* round trip.
C6_Witness ==
  /\ pc = "reparsed"
  /\ input.from = "variant"
  /\ input.enum = "Reserve"
  /\ result.val = "Introduce"
  /\ reparsed.ok

\* The literals of the specification's table for the single-character
\* enumerations, as <<token, variant>> pairs.
ListedLiterals(k) ==
  CASE k = "CompetitionType" -> { <<"I", "Individual">>, <<"T", "Team">> }
    [] k = "Weapon" -> { <<"F", "Foil">>, <<"E", "Epee">>, <<"S", "Sabre">> }
    [] k = "Priority" -> { <<"N", "None">>, <<"R", "Right">>, <<"L", "Left">> }
    [] k = "ApparatusState" ->
         { <<"F", "Fencing">>, <<"H", "Halt">>, <<"P", "Pause">>,
           <<"W", "Waiting">>, <<"E", "Ending">> }
    [] k = "FencerStatus" ->
         { <<"U", "Undefined">>, <<"V", "Victory">>, <<"D", "Defeat">>,
           <<"A", "Abandonment">>, <<"E", "Exclusion">> }
    [] k = "Reserve" -> { <<"N", "None">>, <<"R", "Introduce">> }
    [] k = "PCard" ->
         { <<"0", "None">>, <<"1", "Yellow">>, <<"2", "OneRed">>,
           <<"3", "TwoRed">>, <<"4", "OneBlack">>, <<"5", "TwoBlack">> }

FieldName(k) ==
  CASE k = "CompetitionType" -> "competition_type"
    [] k = "Weapon" -> "weapon"
    [] k = "Priority" -> "priority"
    [] k = "ApparatusState" -> "state"
    [] k = "FencerStatus" -> "fencer_status"
    [] k = "Reserve" -> "reserve"
    [] k = "PCard" -> "p_card"

\* C7: for the seven single-character enumerations, a listed literal
\* decodes to its variant and every other token fails with
\* InvalidValue{field, value} carrying the field name and the token.
C7_ExactDecode ==
  (pc = "decoded" /\ input.from = "token" /\ input.enum # "Command") =>
    IF \E l \in ListedLiterals(input.enum) : raw = <<l[1]>>
    THEN \E l \in ListedLiterals(input.enum) :
           raw = <<l[1]>> /\ result.ok /\ result.val = l[2]
    ELSE ErrIs(result, InvalidValue(FieldName(input.enum), raw))

\* C7 witness: a lower-case weapon letter was rejected with InvalidValue.
C7_Witness ==
  /\ pc = "decoded"
  /\ input.enum = "Weapon"
  /\ raw = <<"f">>
  /\ ErrIs(result, InvalidValue("weapon", <<"f">>))

\* The variant the specification gives for an upper-case command literal.
ListedCommand(w) ==
  CASE w = <<"H","E","L","L","O">> -> "Hello"
    [] w = <<"D","I","S","P">> -> "Disp"
    [] w = <<"A","C","K">> -> "Ack"
    [] w = <<"N","A","K">> -> "Nak"
    [] w = <<"I","N","F","O">> -> "Info"
    [] w = <<"N","E","X","T">> -> "Next"
    [] w = <<"P","R","E","V">> -> "Prev"

\* C8: every case mixture of a command literal decodes to the variant of
\* the upper-case literal, and the message re-encodes with the upper-case
\* literal as its command token.
C8_CommandCase ==
  (pc # "start" /\ input.family = "header" /\ input.proto \in {EFP1, EFP1_1}) =>
    \A w \in CommandLiterals :
      input.cmd \in Spellings[w] =>
        /\ result.ok
        /\ result.val.command = ListedCommand(w)
        /\ pc \in {"encoded", "reparsed"} => split(encoded, "|")[3] = w

\* C8 witness: a message decoded from a mixed-case command was encoded.
C8_Witness ==
  /\ pc = "encoded"
  /\ input.family = "header"
  /\ input.cmd = <<"d","I","s","p">>
  /\ result.val.command = "Disp"
  /\ split(encoded, "|")[3] = <<"D","I","S","P">>

AllDigits(s) == s # <<>> /\ \A i \in 1..Len(s) : is_digit(s[i])

RECURSIVE DecimalValue(_)
DecimalValue(s) ==
  IF s = <<>> THEN 0
  ELSE DecimalValue(SubSeq(s, 1, Len(s) - 1)) * 10 + digit_value(s[Len(s)])

\* The token is a decimal numeral, possibly signed, of an integer in 0..255.
DenotesU8(t) ==
  LET d == IF t # <<>> /\ Head(t) \in {"+", "-"} THEN Tail(t) ELSE t IN
  /\ AllDigits(d)
  /\ DecimalValue(d) <= U8Max
  /\ Head(t) = "-" => DecimalValue(d) = 0

\* The placed token at p cannot be decoded into the field at p.
InvalidAt(i, p) ==
  \/ p \in NumericPositions /\ ~DenotesU8(TokenOf(i, p))
  \/ p \in EnumPositions /\ TokenOf(i, p) \notin LiteralsAt(p)

FencerFieldAt(f, k) ==
  CASE k = 0 -> f.id
    [] k = 1 -> f.name
    [] k = 2 -> f.nation
    [] k = 3 -> f.score
    [] k = 4 -> f.status
    [] k = 5 -> f.yellow_card
    [] k = 6 -> f.red_card
    [] k = 7 -> f.light
    [] k = 8 -> f.white_light
    [] k = 9 -> f.medical
    [] k = 10 -> f.reserve
    [] k = 11 -> f.p_card

\* The field of message m that wire position p = <<zone, index>> populates.
FieldAt(m, p) ==
  IF p[1] = 1 THEN FencerFieldAt(m.right_fencer, p[2])
  ELSE IF p[1] = 2 THEN FencerFieldAt(m.left_fencer, p[2])
  ELSE CASE p[2] = 0 -> Some(m.protocol)
         [] p[2] = 1 -> Some(m.command)
         [] p[2] = 2 -> Some(m.piste)
         [] p[2] = 3 -> Some(m.competition_id)
         [] p[2] = 4 -> m.phase
         [] p[2] = 5 -> m.pool_tableau
         [] p[2] = 6 -> m.match_number
         [] p[2] = 7 -> m.round
         [] p[2] = 8 -> m.time
         [] p[2] = 9 -> m.stopwatch
         [] p[2] = 10 -> m.competition_type
         [] p[2] = 11 -> m.weapon
         [] p[2] = 12 -> m.priority
         [] p[2] = 13 -> m.state
         [] p[2] = 14 -> m.referee.id
         [] p[2] = 15 -> m.referee.name
         [] p[2] = 16 -> m.referee.nation

AllPositions == Positions \cup {<<0, 0>>, <<0, 1>>}

\* The line of input i with a valid token at p.
WithValidAt(i, p) == PlacedLine([i EXCEPT !.placed[p] = "good"])

\* At position p the invalid token of input i left only the field at p
\* absent: decode succeeded and every other field has the value it has with
\* a valid token at p.
AbsorbedAt(i, p, r) ==
  LET valid == Message_try_from(WithValidAt(i, p)) IN
  /\ r.ok
  /\ valid.ok
  /\ FieldAt(r.val, p) = None
  /\ \A q \in AllPositions \ {p} : FieldAt(r.val, q) = FieldAt(valid.val, q)

\* C9: a present token at an optional numeric position that is not an
\* integer in 0..255, or at an optional enumeration position that is not a
\* listed literal, makes only that field absent.
C9_Absorption ==
  (pc # "start" /\ input.family = "placed") =>
    \A p \in DOMAIN input.placed :
      InvalidAt(input, p) => AbsorbedAt(input, p, result)

\* The zones of the line as written: its '%'-delimited segments.
WireZones(line) == split(trim(line), "%")

\* Zone number z (1 right, 2 left) is not on the wire or holds pipes only.
ZoneWithoutField(line, z) ==
  LET zones == WireZones(line) IN
  \/ Len(zones) < z + 1
  \/ trim_start_matches(zones[z + 1], "|") = <<>>

HelloLine ==
  <<"|">> \o EFP1_1 \o <<"|">> \o HELLO
    \o <<"|","1","7","|","f","m","-","e","q","|","%","|">>

\* C10: with recognized protocol and command, a fencer zone that is not on
\* the wire or has no non-empty field decodes to the all-absent fencer; the
\* HELLO line decodes to Hello, "17", "fm-eq" and two all-absent fencers.
C10_DefaultFencer ==
  (/\ pc # "start"
   /\ ProtocolField(raw) \in {EFP1, EFP1_1}
   /\ IsCommandLiteral(CommandField(raw))) =>
    /\ result.ok
    /\ ZoneWithoutField(raw, 1) => result.val.right_fencer = Fencer_default
    /\ ZoneWithoutField(raw, 2) => result.val.left_fencer = Fencer_default
    /\ raw = HelloLine =>
         /\ result.val.command = "Hello"
         /\ result.val.piste = <<"1","7">>
         /\ result.val.competition_id = <<"f","m","-","e","q">>
         /\ result.val.right_fencer = Fencer_default
         /\ result.val.left_fencer = Fencer_default

\* C10 witness: the HELLO line was decoded.
C10_Witness ==
  /\ pc = "decoded"
  /\ raw = HelloLine
  /\ result.ok
  /\ result.val.right_fencer = Fencer_default

\* The enumeration read at an enumeration position.
EnumAt(p) ==
  CASE p = <<0, 10>> -> "CompetitionType"
    [] p = <<0, 11>> -> "Weapon"
    [] p = <<0, 12>> -> "Priority"
    [] p = <<0, 13>> -> "ApparatusState"
    [] p[1] # 0 /\ p[2] = 4 -> "FencerStatus"
    [] p[1] # 0 /\ p[2] = 10 -> "Reserve"
    [] p[1] # 0 /\ p[2] = 11 -> "PCard"

\* The value the wire format gives the field at position p for token tok:
\* strings as written (piste and competition_id default to the empty
\* string), numerals in 0..255 as numbers, listed literals as variants,
\* "1" as true and any other present token as false, anything else absent.
ExpectedField(p, tok) ==
  IF p \in NumericPositions
  THEN IF DenotesU8(tok) /\ Head(tok) # "-"
       THEN Some(DecimalValue(IF Head(tok) = "+" THEN Tail(tok) ELSE tok))
       ELSE None
  ELSE IF p \in EnumPositions
  THEN IF \E l \in ListedLiterals(EnumAt(p)) : tok = <<l[1]>>
       THEN Some((CHOOSE l \in ListedLiterals(EnumAt(p)) : tok = <<l[1]>>)[2])
       ELSE None
  ELSE IF p \in BoolPositions
  THEN IF tok = <<>> THEN None ELSE Some(tok = <<"1">>)
  ELSE IF p \in {<<0, 2>>, <<0, 3>>} THEN Some(tok)
  ELSE IF tok = <<>> THEN None ELSE Some(tok)

InfoIncompleteLine ==
  <<"|">> \o EFP1_1 \o <<"|">> \o INFO
    \o <<"|","|","|","|","|","|","|","|","|","|","|","|","W","|","|","%","|">>

\* C11: with recognized protocol and command, every general field at index
\* 2..16 is read from its own wire position whatever other fields are
\* empty; an empty piste or competition_id decodes to the empty string.
C11_GeneralPositional ==
  /\ (pc # "start" /\ input.family = "placed") =>
       /\ result.ok
       /\ \A k \in 2..16 :
            FieldAt(result.val, <<0, k>>)
              = ExpectedField(<<0, k>>, TokenOf(input, <<0, k>>))
  /\ (pc # "start" /\ raw = InfoIncompleteLine) =>
       /\ result.ok
       /\ result.val.command = "Info"
       /\ result.val.piste = <<>>
       /\ result.val.competition_id = <<>>
       /\ result.val.state = Some("Waiting")

\* C11 witness: a state token at index 13 was decoded with indices 2..12
\* all empty.
C11_Witness ==
  /\ pc = "decoded"
  /\ input.family = "placed"
  /\ DOMAIN input.placed = {<<0, 13>>}
  /\ result.ok
  /\ result.val.piste = <<>>
  /\ result.val.state = Some("Waiting")

\* The index of the last present field of Fencer f, or -1.
LastPresent(f) ==
  IF \A k \in 0..11 : FencerFieldAt(f, k) = None THEN -1
  ELSE CHOOSE k \in 0..11 :
         /\ FencerFieldAt(f, k) # None
         /\ \A j \in (k + 1)..11 : FencerFieldAt(f, j) = None

\* The serialization has one token per field up to the last present one,
\* each the rendering of its field, and is empty when no field is present.
TrimmedAfterLastPresent(f, text) ==
  IF LastPresent(f) < 0 THEN text = <<>>
  ELSE LET tokens == split(text, "|") IN
       /\ Len(tokens) = LastPresent(f) + 1
       /\ \A k \in 0..LastPresent(f) : tokens[k + 1] = Fencer_fields(f)[k + 1]

\* The present string fields of f are non-empty and contain no pipe.
PlainStrings(f) ==
  \A k \in 0..2 :
    FencerFieldAt(f, k) # None =>
      /\ FencerFieldAt(f, k)[1] # <<>>
      /\ \A n \in 1..Len(FencerFieldAt(f, k)[1]) : FencerFieldAt(f, k)[1][n] # "|"

\* C12 as stated: for every Fencer the serialization, split on the pipe,
\* has (index of the last present field + 1) tokens, token i the rendering
\* of field i, and the all-absent Fencer serializes to the empty string.
C12_EveryFencer ==
  pc \in {"serialized", "parsed"} => TrimmedAfterLastPresent(result.val, encoded)

\* C12 amended: the same, for every Fencer whose present string fields
\* are non-empty and contain no pipe.
C12_TrailingTrim ==
  (pc \in {"serialized", "parsed"} /\ PlainStrings(result.val))
    => TrimmedAfterLastPresent(result.val, encoded)

\* C12 witness: a Fencer with an absent id, a present nation and nothing
\* after it was serialized to two empty tokens and the nation.
C12_Witness ==
  /\ pc = "serialized"
  /\ result.val.id = None
  /\ result.val.name = None
  /\ result.val.nation # None
  /\ LastPresent(result.val) = 2
  /\ PlainStrings(result.val)
  /\ Len(split(encoded, "|")) = 3

\* C15: for every Fencer whose present string fields are non-empty and
\* contain no pipe, parsing the tokens of its serialization gives back a
\* Fencer equal to it, also when leading fields are absent.
C15_FencerRoundTrip ==
  (pc = "parsed" /\ PlainStrings(result.val))
    => reparsed = Ok(result.val)

\* C15 witness: a Fencer without id but with a later field went through
\* serialize and parse and came back without id.
C15_Witness ==
  /\ pc = "parsed"
  /\ PlainStrings(result.val)
  /\ result.val.id = None
  /\ LastPresent(result.val) > 0
  /\ reparsed.ok
  /\ reparsed.val.id = None

\* No string field of the described message holds a pipe or a percent sign.
NoSeparators(i) ==
  \A p \in DOMAIN i.placed :
    \A n \in 1..Len(ValueTokenAt(i, p)) : ValueTokenAt(i, p)[n] \notin {"|", "%"}

\* The tokens of the general zone of a described message, in wire order.
GeneralTokens(i) ==
  [k \in 1..17 |->
     IF k = 1 THEN i.proto
     ELSE IF k = 2 THEN Command_fmt(i.cmd)
     ELSE ValueTokenAt(i, <<0, k - 1>>)]

\* text is a pipe, then body, then a pipe.
Wrapped(text, body) == text = <<"|">> \o body \o <<"|">>

\* C13: for every Message whose string fields hold no pipe and no percent
\* sign, the line has exactly three percent signs and ends with a pipe, its
\* general zone has exactly 17 tokens in the fixed order with absent
\* optionals as empty tokens, and its right and left zones are the Fencer
\* serializations, also for an all-absent fencer.
C13_EncodeShape ==
  (pc \in {"encoded", "reparsed"} /\ input.family = "message" /\ NoSeparators(input))
    => LET parts == split(encoded, "%")
           general == IF Len(parts[1]) >= 2
                      THEN split(SubSeq(parts[1], 2, Len(parts[1]) - 1), "|")
                      ELSE <<>>
       IN
       /\ Len(parts) = 4
       /\ parts[4] = <<"|">>
       /\ Wrapped(parts[1], join(general, <<"|">>))
       /\ Len(general) = 17
       /\ \A k \in 1..17 : general[k] = GeneralTokens(input)[k]
       /\ Wrapped(parts[2], Fencer_serialize(result.val.right_fencer))
       /\ Wrapped(parts[3], Fencer_serialize(result.val.left_fencer))
       /\ result.val.left_fencer = Fencer_default => parts[3] = <<"|", "|">>

\* C13 witness: a message with one field set in its general zone, one in
\* its right fencer and an all-absent left fencer was converted to a line.
C13_Witness ==
  /\ pc = "encoded"
  /\ input.family = "message"
  /\ NoSeparators(input)
  /\ \E k \in 4..15 : <<0, k>> \in DOMAIN input.placed
  /\ result.val.right_fencer # Fencer_default
  /\ result.val.left_fencer = Fencer_default
  /\ Len(split(encoded, "%")) = 4

\* C14: in a whole-line decode the k-th pipe-delimited field (k = 0..11)
\* of a fencer zone populates the k-th fencer attribute, also when earlier
\* fields of the zone are empty.
C14_FencerPositional ==
  (pc # "start" /\ input.family = "placed") =>
    /\ result.ok
    /\ \A z \in {1, 2} : \A k \in 0..11 :
         FieldAt(result.val, <<z, k>>)
           = ExpectedField(<<z, k>>, TokenOf(input, <<z, k>>))

\* The general field at wire index k of the line, empty when not there.
WireField(line, k) ==
  LET wf == WireGeneralFields(line) IN
  IF Len(wf) > k THEN wf[k + 1] ELSE <<>>

\* The line cut after its command field (general index 1).
WireHeaderOnly(line) ==
  <<"|">> \o WireField(line, 0) \o <<"|">> \o WireField(line, 1) \o <<"|">>

\* Two results are the same success or the same failure.
SameOutcome(r, b) == r.ok = b.ok /\ (~r.ok => r.err = b.err)

\* C16: decode reports the earliest failing step: an unrecognized protocol
\* tag gives InvalidProtocol whatever the command field holds, a recognized
\* tag with an empty or missing command gives MissingField("command"), and
\* the outcome is the one of the line cut after its command field, so no
\* general field at index 2 and beyond and no fencer zone changes the error.
C16_EarliestFailure ==
  (pc # "start" /\ ~Blank(raw)) =>
    LET p == WireField(raw, 0)
        c == WireField(raw, 1)
    IN
    /\ (p # <<>> /\ p \notin {EFP1, EFP1_1}) => ErrIs(result, InvalidProtocol(p))
    /\ (p \in {EFP1, EFP1_1} /\ c = <<>>) => ErrIs(result, MissingField("command"))
    /\ SameOutcome(result, Message_try_from(WireHeaderOnly(raw)))

\* The failures decode can report.
DecodeFailures ==
  { EmptyMessage, MissingField("protocol"), MissingField("command") }

DecodeFailure(r) ==
  ~r.ok =>
    \/ r.err \in DecodeFailures
    \/ r.err.kind \in {"InvalidProtocol", "InvalidCommand"}

IdOrNothing(f) == f.id = None => f = Fencer_default

\* C18: in every message returned by decode, a fencer whose id is absent
\* has all its other 11 fields absent.
C18_IdOrNothing ==
  /\ (pc # "start" /\ result.ok) =>
       IdOrNothing(result.val.right_fencer) /\ IdOrNothing(result.val.left_fencer)
  /\ (pc = "reparsed" /\ reparsed.ok) =>
       IdOrNothing(reparsed.val.right_fencer) /\ IdOrNothing(reparsed.val.left_fencer)

\* C18 witness: a right zone with an empty id field and a name was decoded
\* to a fencer whose id holds the name token and whose name is absent.
C18_Witness ==
  /\ pc = "decoded"
  /\ input.family = "placed"
  /\ DOMAIN input.placed = {<<1, 1>>}
  /\ input.placed[<<1, 1>>] = "good"
  /\ result.ok
  /\ result.val.right_fencer.id = Some(GoodToken(<<1, 1>>))
  /\ result.val.right_fencer.name = None

====
